---- MODULE Spec2Model ----
(***************************************************************************)
(* A model of count_teams_by_county_2025.py: the team collector, the       *)
(* address resolver (zip_to_county, city_state_to_zip_guess), the county   *)
(* aggregation, the geometry join and the Tk status window.                *)
(*                                                                         *)
(* Python strings are sequences of one-character strings.  None and NaN    *)
(* (pandas treats both as missing) are the value None below.               *)
(***************************************************************************)
EXTENDS Naturals, Integers, Sequences, FiniteSets, TLC

VARIABLES
    \* ---- the gazetteer behind the module-level pgeocode.Nominatim("us")
    nomi,
    \* ---- canonicalisation of one county string (SpecCanon)
    cstage, county_name, agg_key, geo_key, agg_key2,
    \* ---- one call of zip_to_county (SpecZip)
    zstage, zipcode, z, zcounty,
    \* ---- one call of city_state_to_zip_guess (SpecGuess)
    gstage, city, state, searched, guess,
    \* ---- one run of main (Spec)
    pc,             \* the step main is at
    geofile,        \* the file at COUNTY_SHAPEFILE
    fetches,        \* the requests issued so far, with their outcome
    event_keys,     \* line 159
    rosters,        \* the rosters get_teams_for_event returned, in order
    team_keys,      \* line 163
    df,             \* the frame of lines 192-266
    files,          \* the names of the files written
    all_teams_csv,  \* the rows of all_teams_2025.csv (line 196)
    guess_csv,      \* the rows of all_teams_2025_with_zip_guesses.csv (line 262)
    county_counts,  \* lines 270-271, one row for each group
    gdf_counties,   \* lines 276-311
    gdf,            \* lines 314-315
    err,            \* the exception that ended the run
    \* ---- the status window of run_with_gui (SpecGui)
    start_btn,      \* state of the Start button
    close_btn,      \* state of the Close button
    polling,        \* poll_queue is scheduled on the interactive thread
    wpc,            \* where the worker thread is
    q,              \* the queue QueueHandler.emit fills
    st              \* the status text: each insert with the thread that made it

cvars == <<cstage, county_name, agg_key, geo_key, agg_key2>>
zvars == <<zstage, zipcode, z, zcounty>>
gvars == <<gstage, city, state, searched, guess>>
mvars == <<pc, geofile, fetches, event_keys, rosters, team_keys, df, files,
           all_teams_csv, guess_csv, county_counts, gdf_counties, gdf, err>>
uvars == <<start_btn, close_btn, polling, wpc, q, st>>
vars == <<nomi, cvars, zvars, gvars, mvars, uvars>>

-----------------------------------------------------------------------------
(* Strings *)

None == <<"None">>

Lowers == <<"a","b","c","d","e","f","g","h","i","j","k","l","m",
            "n","o","p","q","r","s","t","u","v","w","x","y","z">>
Uppers == <<"A","B","C","D","E","F","G","H","I","J","K","L","M",
            "N","O","P","Q","R","S","T","U","V","W","X","Y","Z">>

IndexIn(c, alphabet) ==
    IF \E i \in 1..Len(alphabet) : alphabet[i] = c
    THEN CHOOSE i \in 1..Len(alphabet) : alphabet[i] = c
    ELSE 0

\* str.isspace / cased characters, for the characters the model uses
isspace(c) == c = " "
iscased(c) == IndexIn(c, Lowers) > 0 \/ IndexIn(c, Uppers) > 0

lowerChar(c) == IF IndexIn(c, Uppers) > 0 THEN Lowers[IndexIn(c, Uppers)] ELSE c
upperChar(c) == IF IndexIn(c, Lowers) > 0 THEN Uppers[IndexIn(c, Lowers)] ELSE c

\* str.lower(), str.upper()
lower(s) == [i \in 1..Len(s) |-> lowerChar(s[i])]
upper(s) == [i \in 1..Len(s) |-> upperChar(s[i])]

\* str.strip(): leading and trailing whitespace removed
RECURSIVE lstrip(_)
lstrip(s) == IF s # <<>> /\ isspace(s[1]) THEN lstrip(Tail(s)) ELSE s
RECURSIVE rstrip(_)
rstrip(s) ==
    IF s # <<>> /\ isspace(s[Len(s)]) THEN rstrip(SubSeq(s, 1, Len(s) - 1)) ELSE s
strip(s) == rstrip(lstrip(s))

\* str.title(): a cased character is upper-cased when the character before it
\* is not cased, lower-cased otherwise
RECURSIVE titleFrom(_, _)
titleFrom(s, prevCased) ==
    IF s = <<>> THEN <<>>
    ELSE <<IF prevCased THEN lowerChar(s[1]) ELSE upperChar(s[1])>>
         \o titleFrom(Tail(s), iscased(s[1]))
title(s) == titleFrom(s, FALSE)

\* str.replace(old, ""): every non-overlapping occurrence, left to right
RECURSIVE remove(_, _)
remove(s, old) ==
    IF Len(s) < Len(old) THEN s
    ELSE IF SubSeq(s, 1, Len(old)) = old
         THEN remove(SubSeq(s, Len(old) + 1, Len(s)), old)
         ELSE <<s[1]>> \o remove(Tail(s), old)

\* s[:n]
prefix(s, n) == SubSeq(s, 1, IF Len(s) < n THEN Len(s) ELSE n)

\* the literal " County" of lines 139 and 271
SpCounty == <<" ","C","o","u","n","t","y">>

-----------------------------------------------------------------------------
(* The county-name conversions of the pipeline *)

\* zip_to_county, lines 137-139: county.replace(" County", "").strip()
drop_county_suffix(county) == strip(remove(county, SpCounty))

\* pandas .str.title().str.strip() (lines 257 and 311); missing stays missing
title_strip(county) == IF county = None THEN None ELSE strip(title(county))

\* line 271: county_counts["county"].str.replace(" County", "", regex=False)
rename_key(key) == remove(key, SpCounty)

\* the join key of an aggregate row whose teams resolved to gazetteer county x
canonicalize(x) == rename_key(title_strip(drop_county_suffix(x)))

\* the join key of a geometry feature whose name field holds x (line 311)
geometry_key(x) == title_strip(x)

-----------------------------------------------------------------------------
(* County strings: concatenations of at most MaxTokens tokens *)

MaxTokens == 3

Bay == <<"B","a","y">>
Tokens == { Bay, <<"b","a","y">>, <<" ">>, SpCounty,
            <<" ","c","o","u","n","t","y">>, <<" ","C","O","U","N","T","Y">> }

RECURSIVE Concat(_)
Concat(ts) == IF ts = <<>> THEN <<>> ELSE Head(ts) \o Concat(Tail(ts))

RawCounties ==
    { Concat(ts) : ts \in UNION { [1..n -> Tokens] : n \in 0..MaxTokens } }

-----------------------------------------------------------------------------
(* The gazetteer: rows of place_name, state_code, postal_code, county_name *)

Row(place, stp, postal, county) ==
    [place_name |-> place, state_code |-> stp, postal_code |-> postal,
     county_name |-> county]

MI == <<"M","I">>
OH == <<"O","H">>
Ada == <<"A","d","a">>
Adair == <<"A","d","a","i","r">>
Alger == <<"A","l","g","e","r">>
Zip48484 == <<"4","8","4","8","4">>
Zip44444 == <<"4","4","4","4","4">>
Zip88888 == <<"8","8","8","8","8">>
Zip84848 == <<"8","4","8","4","8">>

Gazetteers ==
    { \* every row complete; the longer place name comes first
      << Row(Adair, MI, Zip48484, Bay \o SpCounty),
         Row(Ada, MI, Zip44444, Bay),
         Row(Ada, OH, Zip88888, Alger),
         Row(<<"D","a">>, MI, Zip84848, None) >>,
      \* county names in other cases; a place without a postal code
      << Row(Adair, MI, Zip48484, <<"B","A","Y">> \o <<" ","C","O","U","N","T","Y">>),
         Row(Ada, MI, None, Bay),
         Row(Ada, MI, Zip44444, Bay),
         Row(None, MI, Zip84848, Alger \o <<" ","c","o","u","n","t","y">>) >>,
      \* no Michigan place with a postal code
      << Row(Ada, MI, None, None),
         Row(Ada, OH, Zip88888, Alger) >> }

\* nomi.query_postal_code(z).county_name: the county of postal code z, NaN
\* when the gazetteer has no such code or no county for it
query_postal_code(rows, code) ==
    LET hit(r) == r.postal_code = code /\ r.county_name # None
        hits == SelectSeq(rows, hit)
    IN IF hits = <<>> THEN None ELSE hits[1].county_name

-----------------------------------------------------------------------------
(* zip_to_county, lines 129-140 *)

ZipLen == 5

\* `not zipcode` of line 130: None and the empty string are falsy
falsy(v) == v = None \/ v = <<>>

\* the key handed to the gazetteer, None when the call returns before the lookup
zip_lookup_key(code) ==
    IF falsy(code) \/ Len(code) < ZipLen THEN None
    ELSE prefix(strip(code), ZipLen)

zip_to_county_of(rows, code) ==
    LET key == zip_lookup_key(code) IN
    IF key = None THEN None
    ELSE LET county == query_postal_code(rows, key) IN
         IF county = None THEN None ELSE drop_county_suffix(county)

-----------------------------------------------------------------------------
(* city_state_to_zip_guess, lines 202-235 *)

\* re.search(pat, s) for patterns of literal characters and "." (any character)
matchesAt(s, pat, i) ==
    /\ i + Len(pat) - 1 <= Len(s)
    /\ \A k \in 1..Len(pat) : pat[k] = "." \/ pat[k] = s[i + k - 1]
contains(s, pat) == \E i \in 1..(Len(s) + 1) : matchesAt(s, pat, i)

\* lines 206-210
state_norm_of(stp) ==
    LET u == upper(strip(stp)) IN
    IF u = <<"M","I","C","H","I","G","A","N">> THEN MI ELSE u

\* lines 215-218
exact_matches(rows, cty, stp) ==
    LET hit(r) == /\ r.place_name # None
                  /\ lower(r.place_name) = lower(strip(cty))
                  /\ r.state_code = state_norm_of(stp)
    IN SelectSeq(rows, hit)

\* lines 225-228
partial_matches(rows, cty, stp) ==
    LET hit(r) == /\ r.place_name # None
                  /\ contains(lower(r.place_name), lower(strip(cty)))
                  /\ r.state_code = state_norm_of(stp)
    IN SelectSeq(rows, hit)

\* whether the first search returns (lines 219-223)
exact_returns(rows, cty, stp) ==
    LET m == exact_matches(rows, cty, stp) IN m # <<>> /\ m[1].postal_code # None

\* the searches a call runs
guess_searches(rows, cty, stp) ==
    IF falsy(cty) \/ falsy(stp) THEN {}
    ELSE IF exact_returns(rows, cty, stp) THEN {"exact"}
    ELSE {"exact", "partial"}

city_state_to_zip_guess(rows, cty, stp) ==
    IF falsy(cty) \/ falsy(stp) THEN None
    ELSE IF exact_returns(rows, cty, stp)
         THEN exact_matches(rows, cty, stp)[1].postal_code
    ELSE LET m == partial_matches(rows, cty, stp) IN
         IF m # <<>> /\ m[1].postal_code # None THEN m[1].postal_code
         ELSE None

-----------------------------------------------------------------------------
(* The parts of the state a specification does not use stay at rest *)

CanonIdle ==
    /\ cstage = "idle" /\ county_name = None
    /\ agg_key = None /\ geo_key = None /\ agg_key2 = None
ZipIdle == zstage = "idle" /\ zipcode = None /\ z = None /\ zcounty = None
GuessIdle ==
    /\ gstage = "idle" /\ city = None /\ state = None
    /\ searched = {} /\ guess = None
MainIdle ==
    /\ pc = "idle" /\ geofile = None /\ fetches = <<>> /\ event_keys = <<>>
    /\ rosters = <<>> /\ team_keys = {} /\ df = <<>> /\ files = {}
    /\ all_teams_csv = <<>> /\ guess_csv = <<>>
    /\ county_counts = <<>> /\ gdf_counties = <<>> /\ gdf = {} /\ err = ""
GuiIdle ==
    /\ start_btn = "idle" /\ close_btn = "idle" /\ polling = FALSE
    /\ wpc = "idle" /\ q = <<>> /\ st = <<>>

-----------------------------------------------------------------------------
(* SpecCanon: one county string through both sides of the join *)

CanonInit ==
    /\ county_name \in RawCounties
    /\ cstage = "raw"
    /\ agg_key = None
    /\ geo_key = None
    /\ agg_key2 = None
    /\ nomi = <<>>
    /\ ZipIdle /\ GuessIdle /\ MainIdle /\ GuiIdle

\* steps 4 and 5 of main on the aggregate side
CanonAggregate ==
    /\ cstage = "raw"
    /\ agg_key' = canonicalize(county_name)
    /\ cstage' = "aggregated"
    /\ UNCHANGED <<county_name, geo_key, agg_key2, nomi, zvars, gvars, mvars, uvars>>

\* line 311 on the geometry side
CanonGeometry ==
    /\ cstage = "aggregated"
    /\ geo_key' = geometry_key(county_name)
    /\ cstage' = "joined"
    /\ UNCHANGED <<county_name, agg_key, agg_key2, nomi, zvars, gvars, mvars, uvars>>

\* the canonical key fed back through the aggregate side
CanonAgain ==
    /\ cstage = "joined"
    /\ agg_key2' = canonicalize(agg_key)
    /\ cstage' = "again"
    /\ UNCHANGED <<county_name, agg_key, geo_key, nomi, zvars, gvars, mvars, uvars>>

CanonNext == CanonAggregate \/ CanonGeometry \/ CanonAgain

SpecCanon == CanonInit /\ [][CanonNext]_vars

-----------------------------------------------------------------------------
(* SpecZip: one call of zip_to_county *)

MaxZipChars == 6

ZipChars == {" ", "4", "8"}
Zipcodes ==
    {None} \cup UNION { [1..n -> ZipChars] : n \in 0..MaxZipChars }

ZipInit ==
    /\ nomi \in Gazetteers
    /\ zipcode \in Zipcodes
    /\ zstage = "called"
    /\ z = None
    /\ zcounty = None
    /\ CanonIdle /\ GuessIdle /\ MainIdle /\ GuiIdle

\* lines 130-131: the early return
ZipReject ==
    /\ zstage = "called"
    /\ zip_lookup_key(zipcode) = None
    /\ zstage' = "returned"
    /\ zcounty' = None
    /\ UNCHANGED <<zipcode, z, nomi, cvars, gvars, mvars, uvars>>

\* lines 132-140: the lookup and its result
ZipLookup ==
    /\ zstage = "called"
    /\ zip_lookup_key(zipcode) # None
    /\ z' = zip_lookup_key(zipcode)
    /\ zcounty' = zip_to_county_of(nomi, zipcode)
    /\ zstage' = "looked_up"
    /\ UNCHANGED <<zipcode, nomi, cvars, gvars, mvars, uvars>>

ZipNext == ZipReject \/ ZipLookup

SpecZip == ZipInit /\ [][ZipNext]_vars

-----------------------------------------------------------------------------
(* SpecGuess: one call of city_state_to_zip_guess *)

MaxCityChars == 3

CityChars == {"a", "A", "d", ".", " "}
Cities == {None} \cup UNION { [1..n -> CityChars] : n \in 0..MaxCityChars }
States ==
    { None, <<>>, MI, <<"m","i">>, <<" ","M","I"," ">>, OH,
      <<"M","i","c","h","i","g","a","n">>, <<"M","I","C","H","I","G","A","N">> }

GuessInit ==
    /\ nomi \in Gazetteers
    /\ city \in Cities
    /\ state \in States
    /\ gstage = "called"
    /\ searched = {}
    /\ guess = None
    /\ CanonIdle /\ ZipIdle /\ MainIdle /\ GuiIdle

GuessCall ==
    /\ gstage = "called"
    /\ searched' = guess_searches(nomi, city, state)
    /\ guess' = city_state_to_zip_guess(nomi, city, state)
    /\ gstage' = "returned"
    /\ UNCHANGED <<city, state, nomi, cvars, zvars, mvars, uvars>>

GuessNext == GuessCall

SpecGuess == GuessInit /\ [][GuessNext]_vars

-----------------------------------------------------------------------------
(* The provider, the county file and the steps of main, lines 142-343 *)

NumTeams == 2

\* team keys, in the order sorted() gives them
Teams == 1..NumTeams

\* the season's events as the provider lists them (key, state_prov)
Events ==
    << [key |-> "2025mike", state_prov |-> MI],
       [key |-> "2025mich", state_prov |-> <<"M","i","c","h","i","g","a","n">>],
       [key |-> "2025ohcl", state_prov |-> OH] >>

\* what the provider may answer for one team: city, state_prov, postal_code
TeamDetails ==
    { [city |-> Adair, state_prov |-> MI, postal_code |-> Zip48484],
      [city |-> Ada, state_prov |-> <<"M","i","c","h","i","g","a","n">>,
       postal_code |-> Zip44444],
      [city |-> Ada, state_prov |-> <<"m","i">>, postal_code |-> None],
      [city |-> None, state_prov |-> MI, postal_code |-> None],
      [city |-> Adair, state_prov |-> MI, postal_code |-> Zip84848],
      [city |-> Ada, state_prov |-> OH, postal_code |-> Zip88888],
      [city |-> Ada, state_prov |-> None, postal_code |-> Zip44444] }

\* the county files the run may find
GeoFile(readable, fallback, cols, feats) ==
    [read_file |-> readable, fallback |-> fallback, columns |-> cols,
     features |-> feats]
GeoFiles ==
    { GeoFile(TRUE, TRUE, {"NAME"}, <<[NAME |-> Bay], [NAME |-> Alger]>>),
      GeoFile(FALSE, TRUE, {"FIPS", "County"},
              << [FIPS |-> <<"1">>, County |-> <<"B","A","Y"," ">>],
                 [FIPS |-> <<"2">>, County |-> Alger \o SpCounty] >>),
      GeoFile(TRUE, TRUE, {"NAME10", "county"},
              << [NAME10 |-> Bay, county |-> Alger] >>),
      GeoFile(FALSE, FALSE, {}, <<>>),
      GeoFile(TRUE, TRUE, {"FIPS"}, <<[FIPS |-> <<"1">>]>>) }

ALL_TEAMS_CSV == "all_teams_2025.csv"
GUESS_CSV == "all_teams_2025_with_zip_guesses.csv"
OUTPUT_MAP == "mi_frc_teams_by_county_YEAR.png"

\* a failed request that is not raised
raise_for_status_ignored(ok, next) == next

\* r.raise_for_status() (lines 109, 118, 125): a failed request raises, and
\* nothing in main catches it
raise_for_status(ok, next) == IF ok THEN next ELSE "error"

\* line 112-113
RECURSIVE mi_event_keys(_)
mi_event_keys(events) ==
    IF events = <<>> THEN <<>>
    ELSE (IF Head(events).state_prov \in {MI, <<"M","i","c","h","i","g","a","n">>}
          THEN <<Head(events).key>> ELSE <<>>) \o mi_event_keys(Tail(events))

\* line 182
is_michigan(stp) ==
    ~falsy(stp) /\ upper(stp) \in {MI, <<"M","I","C","H","I","G","A","N">>}

\* lines 183-190
new_row(tk, details) ==
    [team_key |-> tk, city |-> details.city, state |-> details.state_prov,
     postal_code |-> details.postal_code, county |-> None]

\* lines 238-250: a missing postal code is replaced by a guess, if there is one
fill_postal(rows, gaz) ==
    [i \in 1..Len(rows) |->
        IF rows[i].postal_code # None THEN rows[i]
        ELSE LET g == city_state_to_zip_guess(gaz, rows[i].city, rows[i].state)
             IN IF falsy(g) THEN rows[i] ELSE [rows[i] EXCEPT !.postal_code = g]]

\* the counties mapped and the rows without one dropped at once
map_counties_dropna(rows, gaz) ==
    SelectSeq([i \in 1..Len(rows) |->
                  [rows[i] EXCEPT
                      !.county = title_strip(zip_to_county_of(gaz, rows[i].postal_code))]],
              LAMBDA r : r.county # None)

\* lines 255-257
map_counties(rows, gaz) ==
    [i \in 1..Len(rows) |->
        [rows[i] EXCEPT
            !.county = title_strip(zip_to_county_of(gaz, rows[i].postal_code))]]

\* line 266
with_county(rows) == SelectSeq(rows, LAMBDA r : r.county # None)

\* the distinct values of the wrong column counted
team_count_of_county(rows, key) ==
    Cardinality({ rows[i].county : i \in { j \in 1..Len(rows) : rows[j].county = key } })

\* line 270: groupby("county").agg(team_count=("team_key", "nunique"))
team_count(rows, key) ==
    Cardinality({ rows[i].team_key : i \in { j \in 1..Len(rows) : rows[j].county = key } })

\* lines 270-271: one row for each group, its key renamed afterwards
aggregate(rows) ==
    [key \in { rows[i].county : i \in 1..Len(rows) } |->
        [county |-> rename_key(key), team_count |-> team_count(rows, key)]]

\* lines 307-308
name_fields == <<"NAME", "NAME10", "COUNTYNAME", "county", "County", "Name">>
NoField == ""

\* the first accepted name taken when the file has none of them
county_name_field_defaulted(columns) ==
    LET found == { i \in 1..Len(name_fields) : name_fields[i] \in columns } IN
    name_fields[IF found = {} THEN 1 ELSE CHOOSE i \in found : \A j \in found : i <= j]

county_name_field(columns) ==
    LET found == { i \in 1..Len(name_fields) : name_fields[i] \in columns } IN
    IF found = {} THEN NoField
    ELSE name_fields[CHOOSE i \in found : \A j \in found : i <= j]

\* lines 275-304: read_file, then the JSON fallback
geometry_loads(file) == file.read_file \/ file.fallback

\* a feature's value in a column, missing when the feature has no such property
field_value(feature, field) ==
    IF field \in DOMAIN feature THEN feature[field] ELSE None

\* line 311
county_column(file) ==
    [i \in 1..Len(file.features) |->
        LET name == field_value(file.features[i], county_name_field(file.columns))
        IN [name |-> name, county |-> title_strip(name)]]

\* lines 314-315: the left merge on "county", a missing count filled with 0
merge_left(left, right) ==
    { [feature |-> i, county |-> left[i].county, group |-> key,
       team_count |-> right[key].team_count] :
         <<i, key>> \in { p \in (1..Len(left)) \X (DOMAIN right) :
                            right[p[2]].county = left[p[1]].county } }
    \cup
    { [feature |-> i, county |-> left[i].county, group |-> None, team_count |-> 0] :
         i \in { j \in 1..Len(left) :
                   \A key \in DOMAIN right : right[key].county # left[j].county } }

MainInit ==
    /\ nomi \in Gazetteers
    /\ geofile \in GeoFiles
    /\ pc = "events"
    /\ fetches = <<>> /\ event_keys = <<>> /\ rosters = <<>> /\ team_keys = {}
    /\ df = <<>> /\ files = {} /\ all_teams_csv = <<>> /\ guess_csv = <<>>
    /\ county_counts = <<>> /\ gdf_counties = <<>> /\ gdf = {} /\ err = ""
    /\ CanonIdle /\ ZipIdle /\ GuessIdle /\ GuiIdle

\* where main goes once the rosters of all kept events are in
after_rosters(keys) == IF keys = {} THEN "export_all" ELSE "details"

\* line 159: get_mi_district_event_keys
GetEvents ==
    /\ pc = "events"
    /\ \E ok \in BOOLEAN, listed \in SUBSET (1..Len(Events)) :
         LET events == SelectSeq(Events, LAMBDA e : \E i \in listed : Events[i] = e)
             keys == IF ok THEN mi_event_keys(events) ELSE <<>>
         IN /\ fetches' = Append(fetches, [kind |-> "events", id |-> "", ok |-> ok])
            /\ event_keys' = keys
            /\ pc' = raise_for_status(ok, IF keys = <<>> THEN "export_all" ELSE "rosters")
            /\ err' = IF ok THEN "" ELSE "HTTPError"
    /\ UNCHANGED <<geofile, rosters, team_keys, df, files, all_teams_csv, guess_csv,
                   county_counts, gdf_counties, gdf, nomi, cvars, zvars, gvars, uvars>>

\* lines 164-168: the roster of the next kept event
GetTeamsForEvent ==
    /\ pc = "rosters"
    /\ \E ok \in BOOLEAN, teams \in SUBSET Teams :
         LET got == IF ok THEN teams ELSE {}
             last == Len(rosters) + 1 = Len(event_keys)
         IN /\ fetches' = Append(fetches, [kind |-> "event", id |-> event_keys[Len(rosters) + 1],
                                          ok |-> ok])
            /\ rosters' = IF ok THEN Append(rosters, got) ELSE rosters
            /\ team_keys' = team_keys \cup got
            /\ pc' = raise_for_status(ok, IF last THEN after_rosters(team_keys \cup got)
                                           ELSE "rosters")
            /\ err' = IF ok THEN "" ELSE "HTTPError"
    /\ UNCHANGED <<geofile, event_keys, df, files, all_teams_csv, guess_csv,
                   county_counts, gdf_counties, gdf, nomi, cvars, zvars, gvars, uvars>>

\* the team whose details are fetched next (line 174: in sorted order)
detailed == { fetches[i].id : i \in { j \in 1..Len(fetches) : fetches[j].kind = "team" } }
next_team == CHOOSE tk \in team_keys \ detailed : \A o \in team_keys \ detailed : tk <= o

\* lines 174-190: the details of the next team
GetTeamDetails ==
    /\ pc = "details"
    /\ \E ok \in BOOLEAN, details \in TeamDetails :
         LET tk == next_team
             last == team_keys \ detailed = {tk}
         IN /\ fetches' = Append(fetches, [kind |-> "team", id |-> tk, ok |-> ok])
            /\ df' = IF ok /\ is_michigan(details.state_prov)
                     THEN Append(df, new_row(tk, details)) ELSE df
            /\ pc' = raise_for_status(ok, IF last THEN "export_all" ELSE "details")
            /\ err' = IF ok THEN "" ELSE "HTTPError"
    /\ UNCHANGED <<geofile, event_keys, rosters, team_keys, files, all_teams_csv,
                   guess_csv, county_counts, gdf_counties, gdf, nomi, cvars, zvars, gvars, uvars>>

\* lines 192-197: the full-roster export
ExportAll ==
    /\ pc = "export_all"
    /\ all_teams_csv' = df
    /\ files' = files \cup {ALL_TEAMS_CSV}
    /\ pc' = "fill"
    /\ UNCHANGED <<geofile, fetches, event_keys, rosters, team_keys, df, guess_csv,
                   county_counts, gdf_counties, gdf, err, nomi, cvars, zvars, gvars, uvars>>

\* lines 238-252; a frame built from no rows has no postal_code column, and
\* df["postal_code"] raises KeyError
FillPostal ==
    /\ pc = "fill"
    /\ IF df = <<>>
       THEN pc' = "error" /\ err' = "KeyError" /\ df' = df
       ELSE pc' = "counties" /\ err' = err /\ df' = fill_postal(df, nomi)
    /\ UNCHANGED <<geofile, fetches, event_keys, rosters, team_keys, files,
                   all_teams_csv, guess_csv, county_counts, gdf_counties, gdf,
                   nomi, cvars, zvars, gvars, uvars>>

\* lines 255-257
MapCounties ==
    /\ pc = "counties"
    /\ df' = map_counties(df, nomi)
    /\ pc' = "export_review"
    /\ UNCHANGED <<geofile, fetches, event_keys, rosters, team_keys, files,
                   all_teams_csv, guess_csv, county_counts, gdf_counties, gdf, err,
                   nomi, cvars, zvars, gvars, uvars>>

\* lines 260-263: the reviewable export
ExportReview ==
    /\ pc = "export_review"
    /\ guess_csv' = df
    /\ files' = files \cup {GUESS_CSV}
    /\ pc' = "aggregate"
    /\ UNCHANGED <<geofile, fetches, event_keys, rosters, team_keys, df,
                   all_teams_csv, county_counts, gdf_counties, gdf, err,
                   nomi, cvars, zvars, gvars, uvars>>

\* lines 266-271
Aggregate ==
    /\ pc = "aggregate"
    /\ df' = with_county(df)
    /\ county_counts' = aggregate(with_county(df))
    /\ pc' = "geometry"
    /\ UNCHANGED <<geofile, fetches, event_keys, rosters, team_keys, files,
                   all_teams_csv, guess_csv, gdf_counties, gdf, err,
                   nomi, cvars, zvars, gvars, uvars>>

\* lines 275-311
LoadGeometry ==
    /\ pc = "geometry"
    /\ IF ~geometry_loads(geofile)
       THEN pc' = "error" /\ err' = "RuntimeError: load" /\ gdf_counties' = gdf_counties
       ELSE IF county_name_field(geofile.columns) = NoField
       THEN pc' = "error" /\ err' = "RuntimeError: name field"
            /\ gdf_counties' = gdf_counties
       ELSE pc' = "join" /\ err' = err /\ gdf_counties' = county_column(geofile)
    /\ UNCHANGED <<geofile, fetches, event_keys, rosters, team_keys, df, files,
                   all_teams_csv, guess_csv, county_counts, gdf, nomi, cvars, zvars, gvars, uvars>>

\* lines 314-315
Join ==
    /\ pc = "join"
    /\ gdf' = merge_left(gdf_counties, county_counts)
    /\ pc' = "plot"
    /\ UNCHANGED <<geofile, fetches, event_keys, rosters, team_keys, df, files,
                   all_teams_csv, guess_csv, county_counts, gdf_counties, err,
                   nomi, cvars, zvars, gvars, uvars>>

\* lines 318-335
SaveMap ==
    /\ pc = "plot"
    /\ files' = files \cup {OUTPUT_MAP}
    /\ pc' = "done"
    /\ UNCHANGED <<geofile, fetches, event_keys, rosters, team_keys, df,
                   all_teams_csv, guess_csv, county_counts, gdf_counties, gdf, err,
                   nomi, cvars, zvars, gvars, uvars>>

Next ==
    \/ GetEvents \/ GetTeamsForEvent \/ GetTeamDetails \/ ExportAll \/ FillPostal
    \/ MapCounties \/ ExportReview \/ Aggregate \/ LoadGeometry \/ Join \/ SaveMap

Spec == MainInit /\ [][Next]_vars

-----------------------------------------------------------------------------
(* SpecGui: run_with_gui, lines 345-454.  The interactive thread runs the Tk  *)
(* callbacks on_start and poll_queue; the worker thread runs worker, whose    *)
(* call of main reports through logging, hence through QueueHandler and q.    *)

\* append_text, lines 400-405, run by thread t
append_text(text, t, s) == Append(text, [s |-> s, thread |-> t])

RECURSIVE append_all(_, _, _)
append_all(text, t, msgs) ==
    IF msgs = <<>> THEN text
    ELSE append_all(append_text(text, t, Head(msgs)), t, Tail(msgs))

\* QueueHandler.emit, lines 355-358
emit(queue, msg) == Append(queue, msg)

GuiInit ==
    /\ start_btn = "normal" /\ close_btn = "disabled" /\ polling = FALSE
    /\ wpc = "not started" /\ q = <<>> /\ st = <<>>
    /\ nomi = <<>>
    /\ CanonIdle /\ ZipIdle /\ GuessIdle /\ MainIdle

\* on_start, lines 433-450, on the interactive thread
OnStart ==
    /\ start_btn = "normal"
    /\ \E key \in {"", "key"} :
         IF key = ""
         THEN UNCHANGED uvars
         ELSE /\ start_btn' = "disabled"
              /\ st' = append_all(st, "interactive",
                                  <<"====", "Starting FRC Teams Analysis...", "====">>)
              /\ wpc' = "start"
              /\ polling' = TRUE
              /\ UNCHANGED <<close_btn, q>>
    /\ UNCHANGED <<nomi, cvars, zvars, gvars, mvars>>

\* poll_queue, lines 407-414, on the interactive thread: one pass of its loop
\* moves the oldest message of the queue into the status text
PollQueue ==
    /\ polling
    /\ q # <<>>
    /\ st' = append_text(st, "interactive", Head(q))
    /\ q' = Tail(q)
    /\ UNCHANGED <<start_btn, close_btn, polling, wpc, nomi, cvars, zvars, gvars, mvars>>

\* worker, line 420
WorkerUsingYear ==
    /\ wpc = "start"
    /\ st' = append_text(st, "worker", "Using year")
    /\ wpc' = "main"
    /\ UNCHANGED <<start_btn, close_btn, polling, q, nomi, cvars, zvars, gvars, mvars>>

\* worker, line 421: main logs its start (line 156)
MainLogsStart ==
    /\ wpc = "main"
    /\ q' = emit(q, "Starting analysis")
    /\ wpc' = "collecting"
    /\ UNCHANGED <<start_btn, close_btn, polling, st, nomi, cvars, zvars, gvars, mvars>>

\* main, lines 158-272: nothing is logged; a failed request or an empty frame
\* raises
MainCollects ==
    /\ wpc = "collecting"
    /\ \E raised \in BOOLEAN : wpc' = IF raised THEN "raised" ELSE "geometry"
    /\ UNCHANGED <<start_btn, close_btn, polling, q, st, nomi, cvars, zvars, gvars, mvars>>

\* main, lines 275-304: the county file is read, directly or by the fallback
MainLoadsGeometry ==
    /\ wpc = "geometry"
    /\ \E how \in {"read_file", "fallback", "neither"} :
         /\ q' = IF how = "read_file" THEN emit(q, "Loaded county geometry")
                 ELSE IF how = "fallback"
                 THEN emit(emit(q, "geopandas.read_file failed"),
                           "Loaded county geometries via fallback")
                 ELSE emit(emit(q, "geopandas.read_file failed"),
                           "Failed to load county GeoJSON")
         /\ wpc' = IF how = "neither" THEN "raised" ELSE "plotting"
    /\ UNCHANGED <<start_btn, close_btn, polling, st, nomi, cvars, zvars, gvars, mvars>>

\* main, lines 306-343: a county file without a name field raises
MainFinishes ==
    /\ wpc = "plotting"
    /\ \E raised \in BOOLEAN : wpc' = IF raised THEN "raised" ELSE "returned"
    /\ UNCHANGED <<start_btn, close_btn, polling, q, st, nomi, cvars, zvars, gvars, mvars>>

\* worker, line 422
WorkerLogsFinished ==
    /\ wpc = "returned"
    /\ q' = emit(q, "Analysis finished successfully.")
    /\ wpc' = "line 423"
    /\ UNCHANGED <<start_btn, close_btn, polling, st, nomi, cvars, zvars, gvars, mvars>>

\* worker, lines 423-425: three calls of append_text
WorkerAppendsComplete ==
    /\ wpc \in {"line 423", "line 424", "line 425"}
    /\ st' = append_text(st, "worker",
                         IF wpc = "line 424" THEN "ANALYSIS COMPLETE!" ELSE "====")
    /\ wpc' = IF wpc = "line 423" THEN "line 424"
              ELSE IF wpc = "line 424" THEN "line 425" ELSE "line 426"
    /\ UNCHANGED <<start_btn, close_btn, polling, q, nomi, cvars, zvars, gvars, mvars>>

\* worker, line 429
WorkerLogsException ==
    /\ wpc = "raised"
    /\ q' = emit(q, "Error during analysis")
    /\ wpc' = "line 430"
    /\ UNCHANGED <<start_btn, close_btn, polling, st, nomi, cvars, zvars, gvars, mvars>>

\* worker, line 430
WorkerAppendsError ==
    /\ wpc = "line 430"
    /\ st' = append_text(st, "worker", "ERROR")
    /\ wpc' = "line 426"
    /\ UNCHANGED <<start_btn, close_btn, polling, q, nomi, cvars, zvars, gvars, mvars>>

\* worker, lines 426 and 431: the Close button is enabled
WorkerEnablesClose ==
    /\ wpc = "line 426"
    /\ close_btn' = "normal"
    /\ wpc' = "done"
    /\ UNCHANGED <<start_btn, polling, q, st, nomi, cvars, zvars, gvars, mvars>>

\* the Close button, line 392: root.destroy ends the polling
Close ==
    /\ close_btn = "normal"
    /\ polling
    /\ polling' = FALSE
    /\ close_btn' = "disabled"
    /\ UNCHANGED <<start_btn, wpc, q, st, nomi, cvars, zvars, gvars, mvars>>

GuiNext ==
    \/ OnStart \/ PollQueue \/ WorkerUsingYear \/ MainLogsStart \/ MainCollects
    \/ MainLoadsGeometry \/ MainFinishes \/ WorkerLogsFinished
    \/ WorkerAppendsComplete \/ WorkerLogsException \/ WorkerAppendsError
    \/ WorkerEnablesClose \/ Close

SpecGui == GuiInit /\ [][GuiNext]_vars

-----------------------------------------------------------------------------
(* Properties of one run of main (Spec) *)

RECURSIVE sum_team_count(_, _)
sum_team_count(counts, keys) ==
    IF keys = {} THEN 0
    ELSE LET key == CHOOSE k \in keys : TRUE
         IN counts[key].team_count + sum_team_count(counts, keys \ {key})

GeometryErrors == {"RuntimeError: load", "RuntimeError: name field"}

\* main has run line 275 or a later one
ReachedGeometry ==
    pc \in {"join", "plot", "done"} \/ (pc = "error" /\ err \in GeometryErrors)

\* main has run lines 266-271
Aggregated == pc = "geometry" \/ ReachedGeometry

\* the teams of the reviewable export that have a county
resolved_team_keys ==
    { guess_csv[i].team_key : i \in { j \in 1..Len(guess_csv) : guess_csv[j].county # None } }

\* C1: once main has aggregated, the team counts of the aggregate add up to the
\* number of distinct team keys that resolved to a county, and no team key lies in
\* the groups of two counties, whatever the number of rosters it appeared in.
C1_CountedOnce ==
    Aggregated =>
        /\ sum_team_count(county_counts, DOMAIN county_counts)
             = Cardinality(resolved_team_keys)
        /\ \A tk \in team_keys :
             Cardinality({ key \in DOMAIN county_counts :
                             \E i \in 1..Len(df) :
                                df[i].team_key = tk /\ df[i].county = key }) <= 1

\* a team of two rosters has been counted, beside another team of its county
C1_Witness ==
    /\ Aggregated
    /\ Len(rosters) = 2
    /\ \E tk \in rosters[1] \cap rosters[2] : tk \in resolved_team_keys
    /\ \E key \in DOMAIN county_counts : county_counts[key].team_count = 2

\* C2: after the join every geometry county appears exactly once in the output,
\* with a count >= 0 that is the aggregate's count for its county, and 0 when the
\* aggregate has no such county.
C2_JoinComplete ==
    pc \in {"plot", "done"} =>
        \A i \in 1..Len(gdf_counties) :
            LET out == { r \in gdf : r.feature = i }
                inAgg == { key \in DOMAIN county_counts :
                             county_counts[key].county = gdf_counties[i].county }
            IN /\ Cardinality(out) = 1
               /\ \A r \in out :
                    /\ r.team_count >= 0
                    /\ inAgg = {} => r.team_count = 0
                    /\ inAgg # {} =>
                         \E key \in inAgg : r.team_count = county_counts[key].team_count

\* the county file cannot be loaded, or has none of the accepted name fields
AcceptedNameFields == {"NAME", "NAME10", "COUNTYNAME", "county", "County", "Name"}
GeoUnusable ==
    \/ ~geofile.read_file /\ ~geofile.fallback
    \/ geofile.columns \cap AcceptedNameFields = {}

\* C4, as stated: a run that finds the county file unusable ends in an error
\* with none of the output files written.
C4_ConfigErrorNoOutput ==
    (GeoUnusable /\ ReachedGeometry) => (pc = "error" /\ files = {})

\* C4, amended: a run whose county file is unusable never joins, plots or
\* completes and never writes the map image; when it has got as far as the
\* county file it has ended in an error, with the full-roster export and the
\* reviewable export already written.
C4_UnusableCountyFileNoMap ==
    GeoUnusable =>
        /\ pc \notin {"join", "plot", "done"}
        /\ OUTPUT_MAP \notin files
        /\ ReachedGeometry =>
             (pc = "error" /\ files = {ALL_TEAMS_CSV, GUESS_CSV})

\* a run ended by a county file without a name field, both exports written
C4_Witness ==
    /\ geofile.read_file
    /\ geofile.columns \cap AcceptedNameFields = {}
    /\ pc = "error"
    /\ err = "RuntimeError: name field"
    /\ files = {ALL_TEAMS_CSV, GUESS_CSV}
    /\ guess_csv # <<>>

\* C5: a failed request is the last request of the run, the run has ended in an
\* error, and no file has been written.
C5_FetchFailureAborts ==
    \A i \in 1..Len(fetches) :
        ~fetches[i].ok => (i = Len(fetches) /\ pc = "error" /\ files = {})

\* the details of the second team failed, after the rosters were fetched
C5_Witness ==
    /\ pc = "error"
    /\ Len(fetches) >= 4
    /\ ~fetches[Len(fetches)].ok
    /\ fetches[Len(fetches)].kind = "team"
    /\ df # <<>>

\* C6: the reviewable export has one row for each row of the full-roster export,
\* in the same order, the teams without a county included; the aggregate counts,
\* for each county, exactly the teams of the reviewable export with that county;
\* and a run with qualifying teams is never ended by the resolution steps.
C6_MissesExportedThenDropped ==
    /\ GUESS_CSV \in files =>
         /\ Len(guess_csv) = Len(all_teams_csv)
         /\ \A i \in 1..Len(guess_csv) : guess_csv[i].team_key = all_teams_csv[i].team_key
    /\ Aggregated =>
         /\ DOMAIN county_counts
              = { guess_csv[i].county : i \in 1..Len(guess_csv) } \ {None}
         /\ \A key \in DOMAIN county_counts :
              county_counts[key].team_count
                = Cardinality({ i \in 1..Len(guess_csv) : guess_csv[i].county = key })
    /\ (pc = "error" /\ all_teams_csv # <<>>) => err \in GeometryErrors

\* the run is complete with one team counted, one without a postal code after
\* guessing and so without a county
C6_Witness ==
    /\ pc = "done"
    /\ \E i, j \in 1..Len(guess_csv) :
         /\ guess_csv[i].postal_code = None /\ guess_csv[i].county = None
         /\ guess_csv[j].county # None
    /\ Cardinality(DOMAIN county_counts) = 1

-----------------------------------------------------------------------------
(* Properties of the county-name conversions (SpecCanon) *)

\* C3: a county string gives the same join key on the aggregate side and on the
\* geometry side.
C3_SameKeyBothSides == cstage \in {"joined", "again"} => agg_key = geo_key

\* C7: the aggregate side's canonicalisation, applied to its own result, returns
\* it unchanged.
C7_Idempotent == cstage = "again" => agg_key2 = agg_key

-----------------------------------------------------------------------------
(* Properties of zip_to_county (SpecZip) *)

\* C8: zip_to_county returns none without a lookup, or looks up a key of exactly
\* 5 characters; and it returns none when the gazetteer has no county for the key.
C8_FiveCharacterLookup ==
    /\ zstage = "returned" => zcounty = None
    /\ zstage = "looked_up" =>
         /\ Len(z) = ZipLen
         /\ query_postal_code(nomi, z) = None => zcounty = None

-----------------------------------------------------------------------------
(* Properties of city_state_to_zip_guess (SpecGuess) *)

\* C9: with an exact match the guess is the first exact match's postal code and
\* the substring search is not run; the substring search runs only without an
\* exact match; the guess is none only when the city or the state is missing or
\* neither search finds a row.
C9_TwoPhase ==
    gstage = "returned" =>
        LET given == ~falsy(city) /\ ~falsy(state)
            exact == IF given THEN exact_matches(nomi, city, state) ELSE <<>>
            partial == IF given THEN partial_matches(nomi, city, state) ELSE <<>>
        IN /\ exact # <<>> =>
                guess = exact[1].postal_code /\ "partial" \notin searched
           /\ "partial" \in searched => exact = <<>>
           /\ guess = None => (~given \/ (exact = <<>> /\ partial = <<>>))

-----------------------------------------------------------------------------
(* Properties of the status window (SpecGui) *)

\* C10: every insert into the status text is made by the interactive thread.
C10_OnlyInteractiveThreadWrites ==
    \A i \in 1..Len(st) : st[i].thread = "interactive"

====
